---------------------------- MODULE Spec2Model ----------------------------
(***************************************************************************)
(* Model of Merging_Multiple_File.py: the merge engine (merge_datasets,    *)
(* built on pandas' astype(str)/str.strip/dropna/duplicated/unique/merge)  *)
(* and the Streamlit session workflow that chains merges across reruns.    *)
(*                                                                         *)
(* Library semantics are those of pandas 2.x with object-dtype columns as  *)
(* produced by read_csv: astype(str) turns a missing value into the text   *)
(* "nan"; merge(how='left') keeps the left order; a right key column with  *)
(* the same name as the left key is dropped from the output; suffixes that *)
(* create a duplicate label on one side raise MergeError.  st.stop()       *)
(* raises a BaseException that `except Exception` does not catch.          *)
(***************************************************************************)
EXTENDS Integers, Sequences, FiniteSets, TLC

VARIABLES
    file_data,   \* name -> table loaded and cleaned in this run (lines 83-87)
    merged_df,   \* st.session_state['merged_df'], NoTable when absent
    used_files,  \* st.session_state['used_files']
    messages,    \* st.error / st.success emitted by the last run's step
    step,        \* the button handled by the last run, and what it did
    call,        \* the last merge_datasets call: arguments and outcome
    folded       \* files whose rows were actually joined into merged_df

vars == <<file_data, merged_df, used_files, messages, step, call, folded>>

----------------------------------------------------------------------------
(* Bounds of the model *)

MaxBaseRows == 2
MaxNewRows == 2
MaxDupKeys == 11

(* duplicate_keys[:10], line 53 *)
MaxReported == 10

----------------------------------------------------------------------------
(* Cells and strings.  A string is a sequence of one-character strings.    *)

Str(s) == [kind |-> "str", text |-> s]

NaN == [kind |-> "nan", text |-> <<>>]

\* Series.astype(str): str(x) of every element, the missing value included.
AsTypeStr(c) == IF c.kind = "nan" THEN Str(<<"n", "a", "n">>) ELSE Str(c.text)

RECURSIVE LStrip(_)
LStrip(s) == IF s # <<>> /\ Head(s) = " " THEN LStrip(Tail(s)) ELSE s

RECURSIVE RStrip(_)
RStrip(s) ==
    IF s # <<>> /\ s[Len(s)] = " " THEN RStrip(SubSeq(s, 1, Len(s) - 1)) ELSE s

Strip(s) == RStrip(LStrip(s))

\* Series.str.strip(): strips strings, leaves a missing value missing.
StrStrip(c) == IF c.kind = "str" THEN Str(Strip(c.text)) ELSE c

\* Variant: the cast without the trim.
NormalizeCell_cast_only(c) == AsTypeStr(c)

NormalizeCell(c) == StrStrip(AsTypeStr(c))

----------------------------------------------------------------------------
(* Tables: ordered column labels (duplicates possible) and rows of cells.  *)

NoTable == [columns |-> <<>>, rows |-> <<>>]

ColumnIndexes(df, key) == {i \in 1..Len(df.columns) : df.columns[i] = key}

\* df[key] is a Series (so that .str exists) only when the label names one
\* column: no column is a KeyError, several give a DataFrame (AttributeError).
IsSeries(df, key) == Cardinality(ColumnIndexes(df, key)) = 1

ColIdx(df, key) == CHOOSE i \in ColumnIndexes(df, key) : TRUE

Column(df, key) == [r \in 1..Len(df.rows) |-> df.rows[r][ColIdx(df, key)]]

\* Variant: the whole frame is cast and trimmed, not the key column alone.
NormalizeKey_every_column(df, key) ==
    [df EXCEPT !.rows =
        [r \in 1..Len(df.rows) |->
            [k \in 1..Len(df.columns) |-> NormalizeCell(df.rows[r][k])]]]

\* df[key] = df[key].astype(str).str.strip(), in place on df.
NormalizeKey(df, key) ==
    [df EXCEPT !.rows =
        [r \in 1..Len(df.rows) |->
            [df.rows[r] EXCEPT ![ColIdx(df, key)] = NormalizeCell(@)]]]

\* df.dropna(subset=[key]): a new table without the rows whose key is missing.
dropna(df, key) ==
    [df EXCEPT !.rows =
        SelectSeq(df.rows, LAMBDA row : row[ColIdx(df, key)].kind # "nan")]

\* The elements of s at the positions in I, in order.
RECURSIVE Take(_, _, _)
Take(s, I, n) ==
    IF n = 0 THEN <<>>
    ELSE IF n \in I THEN Append(Take(s, I, n - 1), s[n])
    ELSE Take(s, I, n - 1)

\* Variant: only a value equal to its predecessor counts as a duplicate.
duplicated_adjacent(s) == {i \in 2..Len(s) : s[i - 1] = s[i]}

\* Series.duplicated(): every occurrence after the first.
duplicated(s) == {i \in 1..Len(s) : \E j \in 1..(i - 1) : s[j] = s[i]}

\* Series.unique(): first occurrences, in order of appearance.
unique(s) == Take(s, (1..Len(s)) \ duplicated(s), Len(s))

\* new_df[key_new][new_df[key_new].duplicated()].unique(), line 51
duplicate_keys(new_df, key_new) ==
    LET keys == Column(new_df, key_new)
    IN  unique(Take(keys, duplicated(keys), Len(keys)))

Head10(s) == SubSeq(s, 1, IF Len(s) < MaxReported THEN Len(s) ELSE MaxReported)


----------------------------------------------------------------------------
(* pandas.merge(left, right, left_on, right_on, how='left',                *)
(*              suffixes=('', rsuffix))                                    *)

Labels(cols) == {cols[i] : i \in 1..Len(cols)}

\* Positions of the right columns kept in the output: a right key with the
\* same label as the left key is dropped.
RightKept(right, left_on, right_on) ==
    {j \in 1..Len(right.columns) :
        ~(left_on = right_on /\ right.columns[j] = right_on)}

\* Labels of the kept right columns after the suffix: a label also present
\* on the left gets rsuffix (the left suffix is '', left labels never change).
RightLabels(left, rcols, rsuffix) ==
    [j \in 1..Len(rcols) |->
        IF rcols[j] \in Labels(left.columns) THEN rcols[j] \o rsuffix
        ELSE rcols[j]]

\* MergeError: the suffix makes two right labels equal that were not equal.
SuffixCausesDuplicate(rcols, rlabels) ==
    \E j \in duplicated(rlabels) : j \notin duplicated(rcols)

Missing(n) == [j \in 1..n |-> NaN]

\* Variant: how='inner', a left row without a match is dropped.
JoinedRows_inner(lrow, lkey, right, rk, kept) ==
    LET hits == {j \in 1..Len(right.rows) : right.rows[j][rk] = lkey}
        all  == [j \in 1..Len(right.rows) |->
                    lrow \o Take(right.rows[j], kept, Len(right.columns))]
    IN  Take(all, hits, Len(right.rows))

\* Output rows of left row i: one per matching right row, in right order;
\* one row filled with missing values when no right row matches.
JoinedRows(lrow, lkey, right, rk, kept) ==
    LET hits == {j \in 1..Len(right.rows) : right.rows[j][rk] = lkey}
        all  == [j \in 1..Len(right.rows) |->
                    lrow \o Take(right.rows[j], kept, Len(right.columns))]
    IN  IF hits = {} THEN <<lrow \o Missing(Cardinality(kept))>>
        ELSE Take(all, hits, Len(right.rows))

RECURSIVE LeftJoin(_, _, _, _, _, _)
LeftJoin(left, lk, right, rk, kept, n) ==
    IF n = 0 THEN <<>>
    ELSE LeftJoin(left, lk, right, rk, kept, n - 1)
            \o JoinedRows(left.rows[n], left.rows[n][lk], right, rk, kept)

pd_merge(left, right, left_on, right_on, rsuffix) ==
    LET kept    == RightKept(right, left_on, right_on)
        rcols   == Take(right.columns, kept, Len(right.columns))
        rlabels == RightLabels(left, rcols, rsuffix)
    IN  IF SuffixCausesDuplicate(rcols, rlabels)
        THEN [raises |-> TRUE, table |-> NoTable]
        ELSE [raises |-> FALSE,
              table  |-> [columns |-> left.columns \o rlabels,
                          rows    |-> LeftJoin(left, ColIdx(left, left_on),
                                               right, ColIdx(right, right_on),
                                               kept, Len(left.rows))]]

----------------------------------------------------------------------------
(* merge_datasets, lines 44-67 *)

Message(level, kind, detail) == [level |-> level, kind |-> kind, detail |-> detail]

\* Variant: the suffix does not name the secondary key.
MergeSuffix_fixed(key_new) == "_merge"

MergeSuffix(key_new) == "_" \o key_new \o "_merge"

\* Variant: the fallback returns the secondary table.
MergeFailed_returns_new(base_now, new_now) ==
    [outcome    |-> "failed",
     table      |-> new_now,
     base_after |-> base_now,
     new_after  |-> new_now,
     errors     |-> <<[level |-> "error", kind |-> "merge_failed", detail |-> <<>>]>>]

\* The `except Exception` branch: report, and return the base object as it is
\* at that point.
MergeFailed(base_now, new_now) ==
    [outcome    |-> "failed",
     table      |-> base_now,
     base_after |-> base_now,
     new_after  |-> new_now,
     errors     |-> <<Message("error", "merge_failed", <<>>)>>]

\* st.error(duplicates) then st.stop(): nothing is returned.
DuplicateStop(base_now, new_now, dups) ==
    [outcome    |-> "halted",
     table      |-> NoTable,
     base_after |-> base_now,
     new_after  |-> new_now,
     errors     |-> <<Message("error", "duplicate_keys", Head10(dups))>>]

merge_datasets(base_df, new_df, key_base, key_new) ==
    IF ~IsSeries(base_df, key_base) THEN MergeFailed(base_df, new_df)
    ELSE
    LET base1 == NormalizeKey(base_df, key_base)
    IN  IF ~IsSeries(new_df, key_new) THEN MergeFailed(base1, new_df)
        ELSE
        LET new1 == NormalizeKey(new_df, key_new)
            new2 == dropna(new1, key_new)
            dups == duplicate_keys(new2, key_new)
            m    == pd_merge(base1, new2, key_base, key_new, MergeSuffix(key_new))
        IN  IF Len(dups) > 0 THEN DuplicateStop(base1, new1, dups)
            ELSE IF m.raises THEN MergeFailed(base1, new1)
            ELSE [outcome    |-> "joined",
                  table      |-> m.table,
                  base_after |-> base1,
                  new_after  |-> new1,
                  errors     |-> <<>>]

----------------------------------------------------------------------------
(* Input tables.  Column 1 holds the enumerated key values; every other    *)
(* cell holds a text that names its table, row and column, so that a cell  *)
(* of the output can be traced to the input cell it was copied from.       *)

DigitChar(d) == <<"0", "1", "2", "3", "4", "5", "6", "7", "8", "9">>[d + 1]

RECURSIVE IntText(_)
IntText(n) ==
    IF n < 10 THEN <<DigitChar(n)>>
    ELSE IntText(n \div 10) \o <<DigitChar(n % 10)>>

Payload(tag, i, j) == Str(<<tag>> \o IntText(i) \o <<"c">> \o IntText(j))

MkTable(cols, keys, tag) ==
    [columns |-> cols,
     rows    |-> [i \in 1..Len(keys) |->
                    [j \in 1..Len(cols) |->
                        IF j = 1 THEN keys[i] ELSE Payload(tag, i, j)]]]

KeyVals == {Str(<<"1">>), Str(<<" ", "1", " ">>), Str(<<"2">>), NaN}

KeySeqs(n) == UNION {[1..m -> KeyVals] : m \in 0..n}

\* n distinct keys, then each of them again in reverse order and padded.
ManyDuplicates(n) ==
    [i \in 1..(2 * n) |->
        IF i <= n THEN Str(IntText(i))
        ELSE Str(<<" ">> \o IntText(2 * n + 1 - i) \o <<" ">>)]

BaseColumns == {<<"id", "score">>, <<"id", "k">>, <<"id", "id">>}

NewColumns ==
    {<<"id", "score">>, <<"k", "score">>, <<"k", "id">>,
     <<"id", "score", "score_id_merge">>, <<"id", "id">>}

KeyNames == {"id", "k"}

BaseTables == {MkTable(c, ks, "b") : c \in BaseColumns, ks \in KeySeqs(MaxBaseRows)}

NewTables ==
    {MkTable(c, ks, "n") : c \in NewColumns, ks \in KeySeqs(MaxNewRows)}
    \cup {MkTable(c, ManyDuplicates(n), "n") : c \in NewColumns, n \in 3..MaxDupKeys}

----------------------------------------------------------------------------
(* The record of a merge_datasets call: its arguments as they were before  *)
(* the call, and what the call did.                                        *)

NoCall ==
    [done |-> FALSE, base_df |-> NoTable, new_df |-> NoTable,
     key_base |-> "", key_new |-> "", outcome |-> "none", table |-> NoTable,
     base_after |-> NoTable, new_after |-> NoTable, errors |-> <<>>]

Pending(base_df, new_df, key_base, key_new) ==
    [NoCall EXCEPT !.base_df = base_df, !.new_df = new_df,
                   !.key_base = key_base, !.key_new = key_new]

Returned(base_df, new_df, key_base, key_new, r) ==
    [done |-> TRUE, base_df |-> base_df, new_df |-> new_df,
     key_base |-> key_base, key_new |-> key_new, outcome |-> r.outcome,
     table |-> r.table, base_after |-> r.base_after,
     new_after |-> r.new_after, errors |-> r.errors]

NoStep == [button |-> "none", file |-> "", stored |-> FALSE]

----------------------------------------------------------------------------
(* MergeSpec: merge_datasets as a function, applied to every bounded input *)

MergeInit ==
    /\ \E b \in BaseTables, n \in NewTables, kb \in KeyNames, kn \in KeyNames :
           call = Pending(b, n, kb, kn)
    /\ file_data = <<>>
    /\ merged_df = NoTable
    /\ used_files = {}
    /\ messages = <<>>
    /\ step = NoStep
    /\ folded = <<>>

MergeCall ==
    /\ ~call.done
    /\ call' = Returned(call.base_df, call.new_df, call.key_base, call.key_new,
                        merge_datasets(call.base_df, call.new_df,
                                       call.key_base, call.key_new))
    /\ messages' = call'.errors
    /\ UNCHANGED <<file_data, merged_df, used_files, step, folded>>

MergeNext == MergeCall

MergeSpec == MergeInit /\ [][MergeNext]_vars

----------------------------------------------------------------------------
(* Spec: the Streamlit session.  Every action is one run of the script in  *)
(* which one button is down; file_data is rebuilt from the uploads by each *)
(* run, st.session_state (merged_df, used_files) lives across runs.        *)

FileOrder == <<"a.csv", "b.csv", "c.csv">>

Files == {FileOrder[i] : i \in 1..Len(FileOrder)}

FileTables ==
    <<MkTable(<<"id", "score">>, <<Str(<<" ", "1", " ">>), Str(<<"2">>)>>, "p"),
      MkTable(<<"id", "score">>, <<Str(<<"1">>), NaN>>, "q"),
      MkTable(<<"id", "score">>, <<Str(<<"1">>), Str(<<" ", "1", " ">>)>>, "r"),
      MkTable(<<"k", "id">>, <<NaN, NaN>>, "s"),
      MkTable(<<"id", "id">>, <<Str(<<"1">>), Str(<<"2">>)>>, "t"),
      MkTable(<<"id", "score", "score_id_merge">>, <<Str(<<"2">>), Str(<<"1">>)>>, "u")>>

\* The uploads: distinct tables of the catalogue.  The script treats a file
\* name as an opaque label, so one naming of each choice of tables is enough.
Uploads ==
    {[f \in Files |-> FileTables[pick[CHOOSE i \in 1..Len(FileOrder) : FileOrder[i] = f]]] :
        pick \in {p \in [1..Len(FileOrder) -> 1..Len(FileTables)] :
                    \A i, j \in 1..Len(FileOrder) : i < j => p[i] < p[j]}}

file_names == DOMAIN file_data

\* 'merged_df' in st.session_state, line 106
InSession == merged_df # NoTable

\* Variant: the expanders are built for every file, used or not.
remaining_files_all == {f \in DOMAIN file_data : TRUE}

\* line 108
remaining_files == {f \in file_names : f \notin used_files}

\* Variant: the stop is swallowed, the handler carries on.
StopsRun_swallowed(r) == FALSE

\* st.stop(), line 54: the run ends inside merge_datasets, and the statements
\* after the call in the button's handler do not execute.
StopsRun(r) == r.outcome = "halted"

Success(file, df) ==
    Message("success", "merged", <<file, Len(df.rows), Len(df.columns)>>)

Init ==
    /\ file_data \in Uploads
    /\ merged_df = NoTable
    /\ used_files = {}
    /\ messages = <<>>
    /\ step = NoStep
    /\ call = NoCall
    /\ folded = [f \in Files |-> 0]

\* if st.button("Merge Initial Files"), lines 93-104.  The tables that line 46
\* and 47 change in place are this run's file_data, rebuilt by the next run.
MergeInitialFiles(file_1, file_2, key_1, key_2) ==
    /\ Cardinality(file_names) >= 2
    /\ file_2 # file_1
    /\ key_1 \in Labels(file_data[file_1].columns)
    /\ key_2 \in Labels(file_data[file_2].columns)
    /\ UNCHANGED file_data
    /\ \E r \in {merge_datasets(file_data[file_1], file_data[file_2], key_1, key_2)} :
        /\ call' = Returned(file_data[file_1], file_data[file_2], key_1, key_2, r)
        /\ IF StopsRun(r)
           THEN /\ messages' = r.errors
                /\ step' = [button |-> "initial", file |-> file_2, stored |-> FALSE]
                /\ UNCHANGED <<merged_df, used_files, folded>>
           ELSE /\ merged_df' = r.table
                /\ used_files' = {file_1, file_2}
                /\ messages' = Append(r.errors, Success(file_2, r.table))
                /\ step' = [button |-> "initial", file |-> file_2, stored |-> TRUE]
                /\ folded' = [f \in Files |->
                                IF f = file_1 THEN 1
                                ELSE IF f = file_2 /\ r.outcome = "joined" THEN 1
                                ELSE 0]

\* if st.button(f"Merge `{next_file}`"), lines 108-118.  The base is the
\* object held by the session, so line 46 changes it in place even when the
\* run stops before line 116 stores a new table.
MergeNextFile(next_file, key_current, key_new) ==
    /\ InSession
    /\ next_file \in remaining_files
    /\ key_current \in Labels(merged_df.columns)
    /\ key_new \in Labels(file_data[next_file].columns)
    /\ UNCHANGED file_data
    /\ \E r \in {merge_datasets(merged_df, file_data[next_file], key_current, key_new)} :
        /\ call' = Returned(merged_df, file_data[next_file], key_current, key_new, r)
        /\ IF StopsRun(r)
           THEN /\ merged_df' = r.base_after
                /\ messages' = r.errors
                /\ step' = [button |-> "next", file |-> next_file, stored |-> FALSE]
                /\ UNCHANGED <<used_files, folded>>
           ELSE /\ merged_df' = r.table
                /\ used_files' = used_files \cup {next_file}
                /\ messages' = Append(r.errors, Success(next_file, r.table))
                /\ step' = [button |-> "next", file |-> next_file, stored |-> TRUE]
                /\ folded' = [folded EXCEPT ![next_file] =
                                IF r.outcome = "joined" THEN @ + 1 ELSE @]

ColumnNames == {"id", "k", "score", "score_id_merge"}

Next ==
    \/ \E f1 \in Files, f2 \in Files, k1 \in ColumnNames, k2 \in ColumnNames :
           MergeInitialFiles(f1, f2, k1, k2)
    \/ \E f \in Files, kn \in ColumnNames :
           \E kc \in Labels(merged_df.columns) : MergeNextFile(f, kc, kn)

Spec == Init /\ [][Next]_vars

----------------------------------------------------------------------------
(* Vocabulary of the properties, stated on the arguments of a call c as    *)
(* they were before the call.                                              *)

\* A key value after string-cast and whitespace trim.
CastTrim(cell) ==
    Str(Strip(IF cell.kind = "nan" THEN <<"n", "a", "n">> ELSE cell.text))

\* Both key labels name exactly one column of their table.
WellKeyed(c) ==
    /\ c.done
    /\ IsSeries(c.base_df, c.key_base)
    /\ IsSeries(c.new_df, c.key_new)

BaseKeys(c) ==
    [i \in 1..Len(c.base_df.rows) |->
        CastTrim(c.base_df.rows[i][ColIdx(c.base_df, c.key_base)])]

NewKeys(c) ==
    [j \in 1..Len(c.new_df.rows) |->
        CastTrim(c.new_df.rows[j][ColIdx(c.new_df, c.key_new)])]

\* The key values that occur in more than one secondary row.
RepeatedKeys(c) ==
    {NewKeys(c)[i] : i \in {i \in 1..Len(c.new_df.rows) :
        \E j \in 1..Len(c.new_df.rows) : j # i /\ NewKeys(c)[j] = NewKeys(c)[i]}}

\* The row at which value v is seen for the second time.
FirstRepeat(c, v) ==
    CHOOSE i \in 1..Len(c.new_df.rows) :
        /\ NewKeys(c)[i] = v
        /\ Cardinality({j \in 1..(i - 1) : NewKeys(c)[j] = v}) = 1

\* The secondary rows whose key equals the key of base row i.
Matches(c, i) == {j \in 1..Len(c.new_df.rows) : NewKeys(c)[j] = BaseKeys(c)[i]}

\* The secondary columns that reach the output, in order: all of them, but
\* for the key column when both keys carry the same label.
OutputNewCols(c) ==
    {j \in 1..Len(c.new_df.columns) :
        c.key_base # c.key_new \/ j # ColIdx(c.new_df, c.key_new)}

\* Position in the output of secondary column j.
OutputPos(c, j) ==
    Len(c.base_df.columns) + Cardinality({k \in OutputNewCols(c) : k <= j})

\* Secondary cell (row j, column k) as the join sees it.
NewCell(c, j, k) ==
    IF k = ColIdx(c.new_df, c.key_new) THEN NewKeys(c)[j] ELSE c.new_df.rows[j][k]

\* Base cell (row i, column k) as the join sees it.
BaseCell(c, i, k) ==
    IF IsSeries(c.base_df, c.key_base) /\ k = ColIdx(c.base_df, c.key_base)
    THEN BaseKeys(c)[i] ELSE c.base_df.rows[i][k]

Listed(c) == c.errors[1].detail

----------------------------------------------------------------------------
(* C1: whenever some secondary key value, after string-cast and trim,      *)
(* occurs more than once (both key labels naming a column), merge_datasets *)
(* stops the run without returning a table, and its one error lists each   *)
(* repeated value once, in the order in which the repeats are met: all of  *)
(* them when there are at most 10, the first 10 otherwise.                 *)
C1_DuplicateKeysHalt ==
    (WellKeyed(call) /\ RepeatedKeys(call) # {}) =>
        /\ call.outcome = "halted"
        /\ call.table = NoTable
        /\ Len(call.errors) = 1
        /\ call.errors[1].level = "error"
        /\ call.errors[1].kind = "duplicate_keys"
        /\ \A a, b \in 1..Len(Listed(call)) :
               a < b => FirstRepeat(call, Listed(call)[a]) < FirstRepeat(call, Listed(call)[b])
        /\ {Listed(call)[a] : a \in 1..Len(Listed(call))} \subseteq RepeatedKeys(call)
        /\ IF Cardinality(RepeatedKeys(call)) <= MaxReported
           THEN Len(Listed(call)) = Cardinality(RepeatedKeys(call))
           ELSE /\ Len(Listed(call)) = MaxReported
                /\ \A v \in RepeatedKeys(call) :
                       (\A a \in 1..MaxReported : Listed(call)[a] # v) =>
                           FirstRepeat(call, v) > FirstRepeat(call, Listed(call)[MaxReported])

C1_Witness ==
    /\ WellKeyed(call)
    /\ Cardinality(RepeatedKeys(call)) > MaxReported
    /\ call.outcome = "halted"
    /\ Len(call.base_df.rows) = MaxBaseRows

----------------------------------------------------------------------------
(* C3: when no secondary key value repeats, the call does not stop the run *)
(* and the table it returns has exactly one row per base row (so at least  *)
(* as many, equality going with every base key matching at most one        *)
(* secondary row), the i-th row carrying the cells of the i-th base row.   *)
C3_LeftPreserving ==
    (WellKeyed(call) /\ RepeatedKeys(call) = {}) =>
        /\ call.outcome \in {"joined", "failed"}
        /\ Len(call.table.rows) >= Len(call.base_df.rows)
        /\ (Len(call.table.rows) = Len(call.base_df.rows))
             <=> (\A i \in 1..Len(call.base_df.rows) : Cardinality(Matches(call, i)) <= 1)
        /\ \A i \in 1..Len(call.base_df.rows) :
               \A k \in 1..Len(call.base_df.columns) :
                   call.table.rows[i][k] = BaseCell(call, i, k)

C3_Witness ==
    /\ WellKeyed(call)
    /\ RepeatedKeys(call) = {}
    /\ call.outcome = "joined"
    /\ Len(call.base_df.rows) = MaxBaseRows
    /\ \E i \in 1..Len(call.base_df.rows) : Matches(call, i) = {}
    /\ \E i \in 1..Len(call.base_df.rows) : Matches(call, i) # {}

----------------------------------------------------------------------------
(* C4: in a joined output, row i is base row i followed by the cells of    *)
(* the secondary row whose key equals its key after string-cast and trim,  *)
(* and by missing values in every secondary column when there is no such   *)
(* row.                                                                    *)
C4_MatchOnNormalizedKeys ==
    (WellKeyed(call) /\ call.outcome = "joined") =>
        /\ Len(call.table.rows) = Len(call.base_df.rows)
        /\ \A i \in 1..Len(call.base_df.rows) :
               /\ Len(call.table.rows[i]) =
                      Len(call.base_df.columns) + Cardinality(OutputNewCols(call))
               /\ \A k \in OutputNewCols(call) :
                      /\ Matches(call, i) = {} =>
                             call.table.rows[i][OutputPos(call, k)] = NaN
                      /\ \A j \in Matches(call, i) :
                             call.table.rows[i][OutputPos(call, k)] = NewCell(call, j, k)

C4_Witness ==
    /\ WellKeyed(call)
    /\ call.outcome = "joined"
    /\ \E i \in 1..Len(call.base_df.rows) : Matches(call, i) = {}
    /\ \E i \in 1..Len(call.base_df.rows) : \E j \in Matches(call, i) :
           /\ call.base_df.rows[i][ColIdx(call.base_df, call.key_base)]
                  # call.new_df.rows[j][ColIdx(call.new_df, call.key_new)]
           /\ call.table.rows[i][Len(call.table.rows[i])].kind = "str"

----------------------------------------------------------------------------
(* C5 as stated: when merge_datasets falls back after an exception, it     *)
(* reports the error and the table it returns is the base table with every *)
(* cell, the base key column included, as it was before the call.          *)
C5_FallbackIsBaseAsBefore ==
    (call.done /\ call.outcome = "failed") =>
        /\ Len(call.errors) = 1
        /\ call.errors[1].kind = "merge_failed"
        /\ call.table = call.base_df

(* C5 amended: the fallback reports the error and returns the base table   *)
(* with the same columns, the same rows, and the same cell values outside  *)
(* the base key column; when key_base names a column (line 46 completed),  *)
(* the cells of that column are their string-cast, trimmed values.         *)
C5_FallbackIsBaseWithKeyNormalized ==
    (call.done /\ call.outcome = "failed") =>
        /\ Len(call.errors) = 1
        /\ call.errors[1].level = "error"
        /\ call.errors[1].kind = "merge_failed"
        /\ call.table.columns = call.base_df.columns
        /\ Len(call.table.rows) = Len(call.base_df.rows)
        /\ \A i \in 1..Len(call.base_df.rows) :
               /\ Len(call.table.rows[i]) = Len(call.base_df.columns)
               /\ \A k \in 1..Len(call.base_df.columns) :
                      call.table.rows[i][k] = BaseCell(call, i, k)

C5_Witness ==
    /\ call.done
    /\ call.outcome = "failed"
    /\ IsSeries(call.base_df, call.key_base)
    /\ ~IsSeries(call.new_df, call.key_new)
    /\ call.table # call.base_df
    /\ Len(call.base_df.rows) = MaxBaseRows

----------------------------------------------------------------------------
----------------------------------------------------------------------------
(* C8 as stated: secondary rows whose key is missing are dropped before    *)
(* the duplicate check and the join, so the call stops, or returns, as it  *)
(* does on the secondary without those rows.                               *)
WithoutMissingKeys(c) ==
    [c.new_df EXCEPT !.rows =
        SelectSeq(c.new_df.rows,
                  LAMBDA row : row[ColIdx(c.new_df, c.key_new)].kind # "nan")]

C8_MissingKeyRowsDropped ==
    WellKeyed(call) =>
        LET r == merge_datasets(call.base_df, WithoutMissingKeys(call),
                                call.key_base, call.key_new)
        IN  /\ call.outcome = r.outcome
            /\ call.table = r.table

----------------------------------------------------------------------------
(* C2: a run in which the secondary's key values repeat ends inside        *)
(* merge_datasets: the handler stores no table (the session's table keeps  *)
(* its columns and rows), used_files is as before, and the run emits no    *)
(* success message.                                                        *)
NoSuccess(msgs) == \A m \in 1..Len(msgs) : msgs[m].level # "success"

C2_DuplicateStopIsHard ==
    [][(WellKeyed(call') /\ RepeatedKeys(call') # {}) =>
          /\ ~step'.stored
          /\ used_files' = used_files
          /\ merged_df'.columns = merged_df.columns
          /\ Len(merged_df'.rows) = Len(merged_df.rows)
          /\ NoSuccess(messages')
          /\ Len(messages') = 1
          /\ messages'[1].kind = "duplicate_keys"]_vars

C2_Witness ==
    /\ step.button = "next"
    /\ WellKeyed(call)
    /\ RepeatedKeys(call) # {}
    /\ Cardinality(used_files) = 2
    /\ InSession

----------------------------------------------------------------------------
(* C6: no file is joined into the session's table more than once, and      *)
(* every incremental step passes the session's merged_df as the base.      *)
C6_AtMostOncePerFile ==
    [][/\ \A f \in Files : folded'[f] <= 1
       /\ step'.button = "next" => call'.base_df = merged_df]_vars

C6_Witness ==
    /\ step.button = "next"
    /\ call.outcome = "joined"
    /\ used_files = Files
    /\ \A f \in Files : folded[f] = 1

----------------------------------------------------------------------------
(* C9 as stated: an incremental step that stores no table leaves every     *)
(* cell of the session's merged_df as it was.                              *)
C9_HaltedStepLeavesTable ==
    [][(step'.button = "next" /\ ~step'.stored) => merged_df' = merged_df]_vars

(* C9 amended: an incremental step that stores no table leaves the columns *)
(* and rows of the session's merged_df, and every cell outside the         *)
(* selected base key column, as they were; the cells of that key column    *)
(* become their string-cast, trimmed values.                               *)
C9_HaltedStepNormalizesKeyOnly ==
    [][(step'.button = "next" /\ ~step'.stored) =>
          /\ call'.base_df = merged_df
          /\ merged_df'.columns = merged_df.columns
          /\ Len(merged_df'.rows) = Len(merged_df.rows)
          /\ \A i \in 1..Len(merged_df.rows) :
                 /\ Len(merged_df'.rows[i]) = Len(merged_df.columns)
                 /\ \A k \in 1..Len(merged_df.columns) :
                        merged_df'.rows[i][k] = BaseCell(call', i, k)]_vars

C9_Witness ==
    /\ step.button = "next"
    /\ ~step.stored
    /\ merged_df # call.base_df
    /\ \E i \in 1..Len(merged_df.rows) : \E k \in 1..Len(merged_df.columns) :
           merged_df.rows[i][k] = NaN

----------------------------------------------------------------------------
(* C10 as stated: used_files is the set of files joined into merged_df,    *)
(* and a success message is emitted only by a step whose merge_datasets    *)
(* call returned a joined table.                                           *)
C10_UsedFilesAreFolded ==
    /\ InSession => used_files = {f \in Files : folded[f] >= 1}
    /\ ~NoSuccess(messages) => call.outcome = "joined"

=============================================================================
